---- MODULE Spec2Model ----
(***************************************************************************)
(* GitHerd: one repository session (RepoTabContent) with its lock, its     *)
(* polling loop threads, manual sync / manual merge worker threads and the *)
(* initial scan thread.  Every git command is an external process whose    *)
(* result is drawn nondeterministically at the point of the call.          *)
(***************************************************************************)
EXTENDS Integers, Sequences, FiniteSets, TLC

\* ---------------------------------------------------------------- bounds
MaxThreads == 2      \* worker threads (polling / manual sync / merge) ever started
NumBranches == 2     \* tracked remote branches matching the prefix
MaxCount == 1        \* largest ahead / behind count git reports
NumFiles == 1        \* distinct file paths a diff can name
MaxList == 3         \* longest branch list handed to are_files_disjoint()
MaxRev == 10         \* largest count rev-list --count prints
NumDirs == 2         \* directories that hold repositories
MaxTabs == 4         \* tabs open at a time
MaxText == 2         \* longest output of a process, in tokens

Threads == 1..MaxThreads
Branches == 1..NumBranches
Counts == 0..MaxCount
Files == 1..NumFiles
NoThread == 0

VARIABLES
    lock,               \* self.lock: NoThread when free, else the holder
    syncing,            \* self.syncing
    polling,            \* self.polling
    stop_event,         \* self.stop_event (threading.Event)
    git_healthy,        \* self.git_healthy
    state_label,        \* text of self.state_label
    pending_branches,   \* self.pending_branches
    last_commit_count,  \* self.last_commit_count: partial map branch -> count
    settings,           \* persisted global settings of this repository
    kind,               \* kind[t]: what thread t was started as
    pc,                 \* pc[t]: position of thread t
    loc,                \* loc[t]: local variables of thread t's current call
    cmds,               \* cmds[t]: what t issued in its current execution (git
                        \* commands, settings writes, notifications, reports)
    scan_pc,            \* position of the initial_scan thread
    main_pc,            \* position of the Tk main thread with respect to this tab
    peer,               \* a second RepoTabContent of the same App: its own lock,
                        \* flags, stop event and polling thread
    tabs,               \* app.tabs with app.tab_paths: the open tabs in insertion
                        \* order, each with its tab_name and its repo_path
    git_call,           \* a call of a git_utils function taken on its own: the
                        \* function, what it meets, and what it returned
    repo_config         \* the configuration of the repository: file, what
                        \* load_repo_config() returns now; self, the fields
                        \* self.remote, self.main, self.prefix of the session

vars == <<lock, syncing, polling, stop_event, git_healthy,
          state_label, pending_branches, last_commit_count, settings,
          kind, pc, loc, cmds, scan_pc, main_pc, peer, tabs, git_call, repo_config>>

session == <<syncing, polling, stop_event, git_healthy,
             state_label, pending_branches, last_commit_count, settings>>

\* ---------------------------------------------------------------- labels
Idle == "Idle"
Scanning == "Sync..."
SyncOK == "Sync OK"
Error == "ERROR"
MergePossible == "STOP - Merge possible"
HumanRequired == "STOP - Human action required"
PushFailed == "STOP - Push failed"
Merging == "Merging..."
MergeFailed == "ERROR - Merge failed"
MergeOK == "Merge OK"
LocalMainAhead == "Local main ahead"
BranchesBehind == "Branches behind"
OneBranchAhead == "1 branch ahead"

\* ---------------------------------------------------------------- helpers
EmptyMap == [b \in {} |-> 0]

Cmd(op, arg) == [op |-> op, arg |-> arg]

NoLoc == [branches |-> <<>>, ahead |-> EmptyMap, behind |-> EmptyMap,
          files |-> EmptyMap, queue |-> <<>>, ctx |-> "none", leader |-> 0,
          local_ahead |-> 0, branch_states |-> EmptyMap, exc |-> FALSE,
          failed |-> {}, changed |-> EmptyMap]

\* what git for-each-ref can list: the tracked branches in ref order; the
\* highest-numbered branches may have been deleted from the remote
AllBranches == [i \in Branches |-> i]
Listings == {SubSeq(AllBranches, 1, n) : n \in 0..NumBranches}

Range(s) == {s[i] : i \in 1..Len(s)}

\* dict.get(key, default)
Get(m, k, d) == IF k \in DOMAIN m THEN m[k] ELSE d

\* m[k] = v on a dict
Put(m, k, v) == [x \in DOMAIN m \cup {k} |-> IF x = k THEN v ELSE m[x]]

\* branch_states.get(short_name, default_enabled)
enabled(st, b) == Get(st.branch_update_enabled, b, st.default_enabled)

\* threading.Lock.acquire(blocking=False) on a lock whose holder is l
acquire_always(l) == TRUE
acquire(l) == l = NoThread

\* ---------------------------------------------------------------- Init
\* RepoTabContent.__init__ of the second tab: lock free, flags off, event clear,
\* no polling thread
NoPeer == [lock |-> FALSE, syncing |-> FALSE, polling |-> FALSE,
           stop_event |-> FALSE, pc |-> "none", settings |-> <<>>]

\* no git_utils function is looked at on its own
Pending == [pending |-> TRUE]
NoCall == [f |-> "none", arg |-> 0, ret |-> [pending |-> FALSE]]

\* a repository path: the parent directory and the last component; a name is
\* a base name followed by the " (n)" suffixes it carries, so that
\* <<"repo", 2>> is the directory name "repo (2)"
Parents == 1..NumDirs
RepoNames == {<<"repo">>, <<"repo", 2>>}
Paths == [parent : Parents, name : RepoNames]

\* the session of this model and the second one: two repositories of the same
\* name in different directories, added in this order by add_repo
ThisPath == [parent |-> 1, name |-> <<"repo">>]
PeerPath == [parent |-> 2, name |-> <<"repo">>]
OpenTabs == <<[tab_name |-> <<"repo">>, repo_path |-> ThisPath],
              [tab_name |-> <<"repo", 2>>, repo_path |-> PeerPath]>>

\* the repository configurations: remote, main_branch, branch_prefix
Configs == [remote : {"origin", "upstream"}, main_branch : {"main", "master"},
            branch_prefix : {"claude/", "feature/"}]

\* RepoTabContent.__init__: self.repo_config = load_repo_config(repo_path), then
\* self.remote, self.main, self.prefix are taken from it
Captured(cfg) == [file |-> cfg, self |-> cfg]
Loaded == Captured([remote |-> "origin", main_branch |-> "main",
                    branch_prefix |-> "claude/"])

\* settings["branch_update_enabled"] of another repository path
OtherRepo == [b \in Branches |-> TRUE]

\* every tracked branch is switched on; sync_new_branches_by_default is off
InitSettings ==
    {[branch_update_enabled |-> m, default_enabled |-> FALSE,
      other_repos |-> OtherRepo] :
        m \in {[b \in Branches |-> TRUE]}}

Init ==
    /\ lock = NoThread
    /\ syncing = FALSE
    /\ polling = FALSE
    /\ stop_event = FALSE
    /\ git_healthy = TRUE
    /\ state_label = Idle
    /\ pending_branches = <<>>
    /\ last_commit_count = EmptyMap
    /\ settings \in InitSettings
    /\ kind = [t \in Threads |-> "none"]
    /\ pc = [t \in Threads |-> "none"]
    /\ loc = [t \in Threads |-> NoLoc]
    /\ cmds = [t \in Threads |-> <<>>]
    /\ scan_pc = "health"
    /\ main_pc = "mainloop"
    /\ peer = NoPeer
    /\ tabs = OpenTabs
    /\ git_call = NoCall
    /\ repo_config = Loaded

\* ---------------------------------------------------------------- thread start
Unused(t) == kind[t] = "none" /\ \A u \in Threads : u < t => kind[u] # "none"

\* threading.Thread(target=..., daemon=True).start()
Spawn(t, k, entry) ==
    /\ Unused(t)
    /\ kind' = [kind EXCEPT ![t] = k]
    /\ pc' = [pc EXCEPT ![t] = entry]
    /\ UNCHANGED <<loc, cmds>>

\* ---------------------------------------------------------------- operator commands
\* a command of the operator is dispatched by the Tk main thread from its
\* mainloop, to a tab that is still in app.tabs
toggle_polling ==
    /\ main_pc = "mainloop"
    /\ git_healthy
    /\ IF polling
       THEN /\ polling' = FALSE
            /\ stop_event' = TRUE
            /\ UNCHANGED <<kind, pc, loc, cmds>>
       ELSE /\ \E t \in Threads :
                Spawn(t, "poll", "loop_head")
            /\ polling' = TRUE
            /\ stop_event' = FALSE
    /\ UNCHANGED <<lock, syncing, git_healthy, state_label, pending_branches,
                   last_commit_count, settings, scan_pc, main_pc, peer, tabs, git_call, repo_config>>

\* for tab in self.tabs.values(): if tab.polling: polling = False, stop_event.set()
stop_all_polling ==
    /\ main_pc = "mainloop"
    /\ polling \/ peer.polling
    /\ polling' = FALSE
    /\ stop_event' = (polling \/ stop_event)
    /\ peer' = [peer EXCEPT !.polling = FALSE,
                            !.stop_event = (peer.polling \/ peer.stop_event)]
    /\ UNCHANGED <<lock, syncing, git_healthy, state_label,
                   pending_branches, last_commit_count, settings, kind, pc, loc,
                   cmds, scan_pc, main_pc, tabs, git_call, repo_config>>

manual_sync ==
    /\ main_pc = "mainloop"
    /\ git_healthy
    /\ \E t \in Threads : Spawn(t, "manual", "sync")
    /\ UNCHANGED <<lock, session, scan_pc, main_pc, peer, tabs, git_call, repo_config>>

manual_merge ==
    /\ main_pc = "mainloop"
    /\ \E t \in Threads : Spawn(t, "merge", "merge")
    /\ UNCHANGED <<lock, session, scan_pc, main_pc, peer, tabs, git_call, repo_config>>

\* ---------------------------------------------------------------- polling loop
\* where a thread goes when sync() / _do_merge() returns or raises
AfterCall(t, raised) ==
    IF raised THEN "crashed"
    ELSE IF kind[t] = "poll" THEN "wait" ELSE "done"

\* while not self.stop_event.is_set(): the event is set, the loop ends
LoopExit(t) ==
    /\ kind[t] = "poll" /\ pc[t] = "loop_head"
    /\ stop_event
    /\ pc' = [pc EXCEPT ![t] = "exited"]
    /\ UNCHANGED <<lock, session, kind, loc, cmds, scan_pc, main_pc, peer, tabs, git_call, repo_config>>

\* if self.stop_event.wait(timeout=interval): break
LoopWaitDeaf(t) ==
    /\ kind[t] = "poll" /\ pc[t] = "wait"
    /\ pc' = [pc EXCEPT ![t] = "loop_head"]
    /\ UNCHANGED <<lock, session, kind, loc, cmds, scan_pc, main_pc, peer, tabs, git_call, repo_config>>
LoopWait(t) ==
    /\ kind[t] = "poll" /\ pc[t] = "wait"
    /\ pc' = [pc EXCEPT ![t] = IF stop_event THEN "exited" ELSE "loop_head"]
    /\ UNCHANGED <<lock, session, kind, loc, cmds, scan_pc, main_pc, peer, tabs, git_call, repo_config>>

\* ---------------------------------------------------------------- sync()
\* a thread is about to call sync(): the polling loop whose loop condition found
\* the event clear, or the worker of a manual sync
CallsSync(t) ==
    \/ kind[t] = "poll" /\ pc[t] = "loop_head" /\ ~stop_event
    \/ kind[t] = "manual" /\ pc[t] = "sync"

\* where a thread goes when the non-blocking acquire failed and the call returned
AfterSkip(t) == IF kind[t] = "poll" THEN "wait" ELSE "skipped"

\* sync(): the lock is held by someone else: return at once
SyncSkipDirty(t) ==
    /\ CallsSync(t)
    /\ ~acquire(lock)
    /\ state_label' = Scanning
    /\ pc' = [pc EXCEPT ![t] = AfterSkip(t)]
    /\ UNCHANGED <<lock, syncing, polling, stop_event, git_healthy,
                   pending_branches, last_commit_count, settings, kind, loc,
                   cmds, scan_pc, main_pc, peer, tabs, git_call, repo_config>>
SyncSkip(t) ==
    /\ CallsSync(t)
    /\ ~acquire(lock)
    /\ pc' = [pc EXCEPT ![t] = AfterSkip(t)]
    /\ UNCHANGED <<lock, session, kind, loc, cmds, scan_pc, main_pc, peer, tabs, git_call, repo_config>>

\* sync(): lock taken, syncing indicator on, _do_sync() starts
SyncBegin(t) ==
    /\ CallsSync(t)
    /\ acquire(lock)
    /\ lock' = t
    /\ syncing' = TRUE
    /\ state_label' = Scanning
    /\ pending_branches' = <<>>
    /\ pc' = [pc EXCEPT ![t] = "fetch"]
    /\ UNCHANGED <<polling, stop_event, git_healthy,
                   last_commit_count, settings, kind, loc, cmds, scan_pc, main_pc, peer, tabs, git_call, repo_config>>

\* ---------------------------------------------------------------- git_utils
\* the exit codes of a git process
ExitCodes == {0, 1, 128}

\* what run_git returns: (returncode, stdout, stderr)
Result(code, out, err) == [raised |-> FALSE, code |-> code, stdout |-> out, stderr |-> err]

\* what a function returns when it does not raise
Value(v) == [raised |-> FALSE, value |-> v]

\* what `git diff --name-only main...remote/branch` ends in: an exit code and
\* the lines of its output, one path a line
DiffOutputs == UNION {[1..n -> Files] : n \in 0..NumFiles}
Diffs == [code : ExitCodes, out : DiffOutputs]

\* get_changed_files(): set(out.splitlines()), the empty set on a failure
get_changed_files(d) ==
    IF d.code # 0 THEN {} ELSE IF d.out # <<>> THEN Range(d.out) ELSE {}

\* rev-list --count prints the count in decimal; int(out) reads it back
RECURSIVE str(_)
str(n) == IF n < 10 THEN <<n>> ELSE str(n \div 10) \o <<n % 10>>

RECURSIVE int(_)
int(out) ==
    IF Len(out) = 1 THEN out[1]
    ELSE 10 * int(SubSeq(out, 1, Len(out) - 1)) + out[Len(out)]

Refs == {"origin/main", "origin/b"}

\* what run_git([git, "rev-list", "--count", "<from>..<to>"]) returns
RevLists ==
    {Result(0, str(n), <<>>) : n \in 0..MaxRev}
    \cup {Result(code, <<>>, <<"a">>) : code \in ExitCodes \ {0}}

\* the range "<from>..<to>" of a rev-list
Range2(from, to) == <<from, to>>

\* commits_ahead(base, tip): the count of base..tip, RuntimeError(err) on a failure
commits_ahead(base, tip, rev_list) ==
    LET r == rev_list[Range2(base, tip)]
    IN  IF r.code # 0 THEN [raised |-> TRUE, exc |-> "RuntimeError", text |-> r.stderr]
        ELSE Value(int(r.stdout))

\* commits_behind(base, tip): the count of tip..base, 0 on a failure
commits_behind_same_range(base, tip, rev_list) ==
    LET r == rev_list[Range2(base, tip)]
    IN  IF r.code # 0 THEN Value(0) ELSE Value(int(r.stdout))
commits_behind(base, tip, rev_list) ==
    LET r == rev_list[Range2(tip, base)]
    IN  IF r.code # 0 THEN Value(0) ELSE Value(int(r.stdout))

\* local_main_ahead(remote, main): commits_ahead(remote/main, main), 0 when it
\* raises
local_main_ahead_uncaught(remote_main, main, rev_list) ==
    commits_ahead(remote_main, main, rev_list)
local_main_ahead(remote_main, main, rev_list) ==
    LET ahead == commits_ahead(remote_main, main, rev_list)
    IN  IF ahead.raised THEN Value(0) ELSE ahead

\* the exit codes the git commands of a cycle are drawn from: success, or the
\* code of a fatal error (the cycle tells code 0 from the others, no more)
CycleCodes == {0, 128}

\* what a rev-list --count run by a cycle returns: a count, or a failure
CountRuns ==
    {Result(0, str(n), <<>>) : n \in Counts}
    \cup {Result(code, <<>>, <<"a">>) : code \in CycleCodes \ {0}}

\* the repository's answer to the one range from..to a call asks for
Answer(from, to, run) == [r \in {Range2(from, to)} |-> run]

\* the refs <remote>/<main> and <main>
RemoteMain == "origin/main"
LocalMain == "main"

\* the output of git diff --name-only when it names the files of S
Lines(S) == CHOOSE out \in [1..Cardinality(S) -> S] : Range(out) = S

\* the calls of f, one a branch, whose git command exited with a code other
\* than 0
Failing(f, code) == {<<f, b>> : b \in {x \in DOMAIN code : code[x] # 0}}

\* ---------------------------------------------------------------- _do_sync()
\* what no step of a sync or merge execution touches
Frame == UNCHANGED <<lock, syncing, stop_event, git_healthy, kind, scan_pc, main_pc, peer, tabs, git_call, repo_config>>

Goto(t, l) == pc' = [pc EXCEPT ![t] = l]
Issue(t, c) == cmds' = [cmds EXCEPT ![t] = Append(@, c)]

\* _do_sync / _do_merge_impl returns (or raises): only the finally block is left;
\* the locals and the log of the execution are dropped
Finish(t, raised) ==
    /\ Goto(t, "release")
    /\ loc' = [loc EXCEPT ![t] = [NoLoc EXCEPT !.exc = raised]]
    /\ cmds' = [cmds EXCEPT ![t] = <<>>]

\* a git command failed: the execution logs "ERROR <what>: ..." and returns;
\* the locals and the rest of the log are dropped
Fail(t, what) ==
    /\ Goto(t, "release")
    /\ loc' = [loc EXCEPT ![t] = NoLoc]
    /\ cmds' = [cmds EXCEPT ![t] = <<Cmd("log_error", what)>>]

\* stop_polling(): clears the polling flag; self.stop_event is left as it is
stop_polling == polling' = FALSE

\* git fetch failed
FetchFailGoesOn(t) ==
    /\ pc[t] = "fetch"
    /\ state_label' = Error
    /\ stop_polling
    /\ Goto(t, "list")
    /\ UNCHANGED <<pending_branches, last_commit_count, settings, loc, cmds>>
    /\ Frame
FetchFail(t) ==
    /\ pc[t] = "fetch"
    /\ state_label' = Error
    /\ stop_polling
    /\ Fail(t, "fetch")
    /\ UNCHANGED <<pending_branches, last_commit_count, settings>>
    /\ Frame

\* git fetch succeeded; local_main_ahead() decides the path
FetchOkNoPriority(t) ==
    /\ pc[t] = "fetch"
    /\ Issue(t, Cmd("fetch", 0))
    /\ \E local_ahead \in Counts :
        /\ loc' = [loc EXCEPT ![t].ctx = IF local_ahead > 0 THEN "local_ahead" ELSE @,
                              ![t].local_ahead = local_ahead]
        /\ Goto(t, "list")
    /\ UNCHANGED <<state_label, pending_branches, last_commit_count, settings,
                   polling>>
    /\ Frame
FetchOk(t) ==
    /\ pc[t] = "fetch"
    /\ \E run \in CountRuns :
        LET local_ahead == local_main_ahead(RemoteMain, LocalMain,
                                            Answer(RemoteMain, LocalMain, run))
            failed == Failing("local_main_ahead", [b \in {0} |-> run.code])
        IN  IF local_ahead.raised
            THEN /\ Goto(t, "release")
                 /\ loc' = [loc EXCEPT ![t] = [NoLoc EXCEPT !.exc = TRUE,
                                                            !.failed = failed]]
                 /\ cmds' = [cmds EXCEPT ![t] = <<>>]
            ELSE IF local_ahead.value > 0
            THEN /\ Issue(t, Cmd("fetch", 0))
                 /\ loc' = [loc EXCEPT ![t].ctx = "local_ahead",
                                       ![t].local_ahead = local_ahead.value]
                 /\ Goto(t, "fan_main")
            ELSE /\ Issue(t, Cmd("fetch", 0))
                 /\ Goto(t, "list")
                 /\ loc' = [loc EXCEPT ![t].failed = failed]
    /\ UNCHANGED <<state_label, pending_branches, last_commit_count, settings,
                   polling>>
    /\ Frame

\* the enabled branches of a listing, in listing order
every_branch(st, all_branches) == all_branches
enabled_branches(st, all_branches) ==
    SelectSeq(all_branches, LAMBDA b : enabled(st, b))

\* the persisted map without the branches that are not listed
cleaned_everywhere(st, all_branches) ==
    [st EXCEPT !.branch_update_enabled =
                   [b \in DOMAIN @ \cap Range(all_branches) |-> @[b]],
               !.other_repos =
                   [b \in DOMAIN @ \cap Range(all_branches) |-> @[b]]]
cleaned(st, all_branches) ==
    [st EXCEPT !.branch_update_enabled =
        [b \in DOMAIN @ \cap Range(all_branches) |-> @[b]]]

\* last_commit_count after the classification loop ran over the first n branches
RECURSIVE recorded(_, _, _, _)
recorded(lcc, branches, ahead, n) ==
    IF n = 0 THEN lcc
    ELSE LET prev == recorded(lcc, branches, ahead, n - 1)
             b == branches[n]
         IN  IF ahead[b] > 0 THEN Put(prev, b, ahead[b]) ELSE prev

\* new_commits_detected after the loop: some ahead count exceeded the recorded one
any_ahead(lcc, branches, ahead, n) == \E i \in 1..n : ahead[branches[i]] > 0
RECURSIVE new_commits_detected(_, _, _, _)
new_commits_detected(lcc, branches, ahead, n) ==
    IF n = 0 THEN FALSE
    ELSE LET b == branches[n]
         IN  \/ new_commits_detected(lcc, branches, ahead, n - 1)
             \/ /\ ahead[b] > 0
                /\ ahead[b] > Get(recorded(lcc, branches, ahead, n - 1), b, 0)

\* get_tracked_branches() raises RuntimeError
ListFail(t) ==
    /\ pc[t] = "list"
    /\ Finish(t, TRUE)
    /\ UNCHANGED <<state_label, pending_branches, last_commit_count, settings,
                   polling>>
    /\ Frame

\* listing and prune done; commits_ahead() raises on the k-th enabled branch,
\* after k-1 branches were recorded
ClassifyFail(t) ==
    /\ pc[t] = "list"
    /\ \E all_branches \in Listings :
       LET branches == enabled_branches(settings, all_branches) IN
       /\ settings' = cleaned(settings, all_branches)
       /\ \E k \in 1..Len(branches) :
          \E ahead \in [Range(SubSeq(branches, 1, k - 1)) -> Counts] :
             last_commit_count' = recorded(last_commit_count, branches, ahead, k - 1)
    /\ Finish(t, TRUE)
    /\ UNCHANGED <<state_label, pending_branches, polling>>
    /\ Frame

\* listing, filter by the freshly loaded settings, prune of stale entries (the
\* local branch_states is the pruned dict itself), then the loop over the
\* enabled branches: ahead / behind counts, recorded counts, the new-commit
\* notification
ClassifyOk(t) ==
    /\ pc[t] = "list"
    /\ \E all_branches \in Listings :
       LET branches == enabled_branches(settings, all_branches) IN
       /\ settings' = cleaned(settings, all_branches)
       /\ \E ahead \in [Range(branches) -> Counts] :
          \E run \in [Range(branches) -> CountRuns] :
          LET behind == [b \in Range(branches) |->
                            commits_behind(RemoteMain, b,
                                           Answer(b, RemoteMain, run[b])).value]
          IN
             /\ last_commit_count' =
                    recorded(last_commit_count, branches, ahead, Len(branches))
             /\ loc' = [loc EXCEPT ![t].branches = branches,
                                   ![t].ahead = ahead, ![t].behind = behind,
                                   ![t].branch_states =
                                       settings'.branch_update_enabled,
                                   ![t].failed =
                                       Failing("commits_behind",
                                               [b \in Range(branches) |-> run[b].code])]
             /\ cmds' = [cmds EXCEPT ![t] =
                    @ \o (IF settings' # settings
                          THEN <<Cmd("save_settings", 0)>> ELSE <<>>)
                      \o (IF new_commits_detected(last_commit_count, branches,
                                                  ahead, Len(branches))
                          THEN <<Cmd("notify", 0)>> ELSE <<>>)]
    /\ Goto(t, "decide")
    /\ UNCHANGED <<state_label, pending_branches, polling>>
    /\ Frame

\* as ClassifyOk up to the notification: new commits were detected and
\* send_notification() raises; it catches FileNotFoundError only, so any other
\* error of subprocess.run (notify-send not executable, no memory, ...) leaves
\* _do_sync with the counts recorded and the settings pruned
NotifyRaise(t) ==
    /\ pc[t] = "list"
    /\ \E all_branches \in Listings :
       LET branches == enabled_branches(settings, all_branches) IN
       /\ settings' = cleaned(settings, all_branches)
       /\ \E ahead \in [Range(branches) -> Counts] :
             /\ new_commits_detected(last_commit_count, branches, ahead,
                                     Len(branches))
             /\ last_commit_count' =
                    recorded(last_commit_count, branches, ahead, Len(branches))
    /\ Goto(t, "release")
    /\ loc' = [loc EXCEPT ![t] = [NoLoc EXCEPT !.exc = TRUE]]
    /\ cmds' = [cmds EXCEPT ![t] = <<Cmd("notify_raised", 0)>>]
    /\ UNCHANGED <<state_label, pending_branches, polling>>
    /\ Frame

\* ahead_branches / diverged_branches built by the classification loop
ahead_branches(branches, ahead, behind) ==
    SelectSeq(branches, LAMBDA b : ahead[b] > 0 /\ ~(behind[b] > 0))

diverged_branches(branches, ahead, behind) ==
    SelectSeq(branches, LAMBDA b : ahead[b] > 0 /\ behind[b] > 0)

\* all_names = diverged names + ahead names
all_names_swapped(diverged, aheads) == aheads \o diverged
all_names(diverged, aheads) == diverged \o aheads

\* are_files_disjoint(): no two positions i < j share a changed file
are_files_disjoint_neighbours(names, files) ==
    \A i \in 1..Len(names) : \A j \in (i + 1)..Len(names) :
        j = i + 1 => files[names[i]] \cap files[names[j]] = {}
are_files_disjoint(names, files) ==
    \A i \in 1..Len(names) : \A j \in (i + 1)..Len(names) :
        files[names[i]] \cap files[names[j]] = {}

total_problematic(l) ==
    Len(ahead_branches(l.branches, l.ahead, l.behind))
        + Len(diverged_branches(l.branches, l.ahead, l.behind))

\* total_problematic == 0, no branch behind on the second look: Idle
DecideIdleKeeps(t) ==
    /\ pc[t] = "decide"
    /\ total_problematic(loc[t]) = 0
    /\ state_label' = Idle
    /\ Finish(t, FALSE)
    /\ UNCHANGED <<pending_branches, last_commit_count, settings, polling>>
    /\ Frame
DecideIdle(t) ==
    /\ pc[t] = "decide"
    /\ total_problematic(loc[t]) = 0
    /\ state_label' = Idle
    /\ last_commit_count' = EmptyMap
    /\ Finish(t, FALSE)
    /\ UNCHANGED <<pending_branches, settings, polling>>
    /\ Frame

\* total_problematic == 0, commits_behind() reports branches behind: push main to each
DecideBehind(t) ==
    /\ pc[t] = "decide"
    /\ total_problematic(loc[t]) = 0
    /\ \E run \in [Range(loc[t].branches) -> CountRuns] :
        LET behind == [b \in Range(loc[t].branches) |->
                          commits_behind(RemoteMain, b,
                                         Answer(b, RemoteMain, run[b])).value]
        IN
        /\ \E b \in Range(loc[t].branches) : behind[b] > 0
        /\ loc' = [loc EXCEPT ![t] =
                     [NoLoc EXCEPT !.ctx = "behind",
                                   !.queue = SelectSeq(loc[t].branches,
                                                       LAMBDA b : behind[b] > 0),
                                   !.failed =
                                       Failing("commits_behind",
                                               [b \in Range(loc[t].branches)
                                                   |-> run[b].code])]]
    /\ Goto(t, "push_behind")
    /\ UNCHANGED <<state_label, pending_branches, last_commit_count, settings,
                   polling, cmds>>
    /\ Frame

\* git push <remote> main:<branch> for the next behind branch fails
PushBehindFailSkips(t) ==
    /\ pc[t] = "push_behind"
    /\ state_label' = Error
    /\ stop_polling
    /\ IF Len(loc[t].queue) = 1
       THEN Fail(t, "push")
       ELSE /\ loc' = [loc EXCEPT ![t].queue = Tail(@)]
            /\ UNCHANGED <<pc, cmds>>
    /\ UNCHANGED <<pending_branches, last_commit_count, settings>>
    /\ Frame
PushBehindFail(t) ==
    /\ pc[t] = "push_behind"
    /\ state_label' = Error
    /\ stop_polling
    /\ Fail(t, "push")
    /\ UNCHANGED <<pending_branches, last_commit_count, settings>>
    /\ Frame

\* git push <remote> main:<branch> for the next behind branch succeeds
PushBehindOk(t) ==
    /\ pc[t] = "push_behind"
    /\ IF Len(loc[t].queue) = 1
       THEN /\ state_label' = SyncOK
            /\ Finish(t, FALSE)
       ELSE /\ Issue(t, Cmd("push", Head(loc[t].queue)))
            /\ loc' = [loc EXCEPT ![t].queue = Tail(@)]
            /\ UNCHANGED <<state_label, pc>>
    /\ UNCHANGED <<pending_branches, last_commit_count, settings, polling>>
    /\ Frame

\* a diverged branch, or more than one branch ahead: record them and stop;
\* changed[b] is what the diff of branch b names when it succeeds, code[b] the
\* exit code of the diff that are_files_disjoint() runs for it
DecideStop(t) ==
    /\ pc[t] = "decide"
    /\ LET l == loc[t]
           diverged == diverged_branches(l.branches, l.ahead, l.behind)
           aheads == ahead_branches(l.branches, l.ahead, l.behind)
           names == all_names(diverged, aheads)
       IN  /\ Len(diverged) > 0 \/ Len(aheads) > 1
           /\ pending_branches' = names
           /\ \E changed \in [Range(names) -> SUBSET Files] :
              \E code \in [Range(names) -> CycleCodes] :
              LET files == [b \in Range(names) |->
                               get_changed_files([code |-> code[b],
                                                  out |-> Lines(changed[b])])]
              IN
                /\ loc' = [loc EXCEPT ![t] =
                             [NoLoc EXCEPT !.files = files, !.changed = changed,
                                           !.failed =
                                               Failing("get_changed_files", code)]]
                /\ state_label' = IF are_files_disjoint(names, files)
                                  THEN MergePossible ELSE HumanRequired
    /\ stop_polling
    /\ Goto(t, "release")
    /\ cmds' = [cmds EXCEPT ![t] = <<>>]
    /\ UNCHANGED <<last_commit_count, settings>>
    /\ Frame

\* exactly one branch ahead, none diverged: it is the leader to pull
DecidePull(t) ==
    /\ pc[t] = "decide"
    /\ LET l == loc[t]
           diverged == diverged_branches(l.branches, l.ahead, l.behind)
           aheads == ahead_branches(l.branches, l.ahead, l.behind)
       IN  /\ total_problematic(l) # 0
           /\ ~(Len(diverged) > 0 \/ Len(aheads) > 1)
           /\ loc' = [loc EXCEPT ![t] =
                        [NoLoc EXCEPT !.leader = aheads[1], !.ctx = "pull",
                                      !.branch_states = l.branch_states]]
    /\ Goto(t, "pull")
    /\ UNCHANGED <<state_label, pending_branches, last_commit_count, settings,
                   polling, cmds>>
    /\ Frame

\* git pull --ff-only <remote> <leader> fails
PullFailQuiet(t) ==
    /\ pc[t] = "pull"
    /\ state_label' = Error
    /\ Fail(t, "pull")
    /\ UNCHANGED <<pending_branches, last_commit_count, settings, polling>>
    /\ Frame
PullFail(t) ==
    /\ pc[t] = "pull"
    /\ state_label' = Error
    /\ stop_polling
    /\ Fail(t, "pull")
    /\ UNCHANGED <<pending_branches, last_commit_count, settings>>
    /\ Frame

\* git pull --ff-only <remote> <leader> succeeds
PullOk(t) ==
    /\ pc[t] = "pull"
    /\ Issue(t, Cmd("pull", loc[t].leader))
    /\ Goto(t, "fan_main")
    /\ UNCHANGED <<state_label, pending_branches, last_commit_count, settings,
                   polling, loc>>
    /\ Frame

\* ---------------------------------------------------------------- push_main_and_branches()
\* git push <remote> <main> fails
FanMainFail(t) ==
    /\ pc[t] = "fan_main"
    /\ state_label' = Error
    /\ stop_polling
    /\ Fail(t, "push main")
    /\ UNCHANGED <<pending_branches, last_commit_count, settings>>
    /\ Frame

\* git push <remote> <main> succeeds
FanMainOk(t) ==
    /\ pc[t] = "fan_main"
    /\ Issue(t, Cmd("push_main", 0))
    /\ Goto(t, "fan_list")
    /\ UNCHANGED <<state_label, pending_branches, last_commit_count, settings,
                   polling, loc>>
    /\ Frame

\* get_tracked_branches() raises inside the fan-out
FanListFail(t) ==
    /\ pc[t] = "fan_list"
    /\ Finish(t, TRUE)
    /\ UNCHANGED <<state_label, pending_branches, last_commit_count, settings,
                   polling>>
    /\ Frame

\* the targets: listed branches enabled in the settings loaded now
FanListOk(t) ==
    /\ pc[t] = "fan_list"
    /\ \E all_branches \in Listings :
        LET targets == enabled_branches(settings, all_branches) IN
        /\ loc' = [loc EXCEPT ![t].queue = targets]
        /\ Goto(t, IF targets = <<>> THEN "fan_done" ELSE "fan_branch")
    /\ UNCHANGED <<state_label, pending_branches, last_commit_count, settings,
                   polling, cmds>>
    /\ Frame

\* git push <remote> main:<target> for the next enabled branch fails
FanBranchFail(t) ==
    /\ pc[t] = "fan_branch"
    /\ state_label' = PushFailed
    /\ stop_polling
    /\ Fail(t, "push")
    /\ UNCHANGED <<pending_branches, last_commit_count, settings>>
    /\ Frame

\* git push <remote> main:<target> for the next enabled branch succeeds
FanBranchOk(t) ==
    /\ pc[t] = "fan_branch"
    /\ Issue(t, Cmd("push", Head(loc[t].queue)))
    /\ loc' = [loc EXCEPT ![t].queue = Tail(@)]
    /\ Goto(t, IF Len(loc[t].queue) = 1 THEN "fan_done" ELSE "fan_branch")
    /\ UNCHANGED <<state_label, pending_branches, last_commit_count, settings,
                   polling>>
    /\ Frame

\* the fan-out returned True to the local-main-ahead path of _do_sync: Sync OK,
\* info text "Pushed <local_ahead> local commits"
FanDoneLocalAhead(t) ==
    /\ pc[t] = "fan_done" /\ loc[t].ctx = "local_ahead"
    /\ state_label' = SyncOK
    /\ Goto(t, "release")
    /\ loc' = [loc EXCEPT ![t] = NoLoc]
    /\ cmds' = [cmds EXCEPT ![t] = <<Cmd("info_pushed", loc[t].local_ahead)>>]
    /\ UNCHANGED <<pending_branches, last_commit_count, settings, polling>>
    /\ Frame

\* the fan-out returned True after the pull: reset the leader's count, Sync OK,
\* then list the branches once more for the info text (the listing may raise)
FanDonePull(t) ==
    /\ pc[t] = "fan_done" /\ loc[t].ctx = "pull"
    /\ last_commit_count' = Put(last_commit_count, loc[t].leader, 0)
    /\ state_label' = SyncOK
    /\ \E raised \in BOOLEAN : Finish(t, raised)
    /\ UNCHANGED <<pending_branches, settings, polling>>
    /\ Frame

\* the fan-out returned True to _do_merge_impl
FanDoneMerge(t) ==
    /\ pc[t] = "fan_done" /\ loc[t].ctx = "merge"
    /\ pending_branches' = <<>>
    /\ last_commit_count' = EmptyMap
    /\ state_label' = MergeOK
    /\ Finish(t, FALSE)
    /\ UNCHANGED <<settings, polling>>
    /\ Frame

\* ---------------------------------------------------------------- _do_merge()
\* _do_merge(): the lock is held by someone else: return at once
MergeSkip(t) ==
    /\ kind[t] = "merge" /\ pc[t] = "merge"
    /\ ~acquire(lock)
    /\ Goto(t, AfterSkip(t))
    /\ UNCHANGED <<lock, session, kind, loc, cmds, scan_pc, main_pc, peer, tabs, git_call, repo_config>>

\* _do_merge(): lock taken; _do_merge_impl() returns if nothing is pending,
\* else branches = self.pending_branches[:] and the loop over branches starts
MergeBegin(t) ==
    /\ kind[t] = "merge" /\ pc[t] = "merge"
    /\ acquire(lock)
    /\ lock' = t
    /\ IF pending_branches = <<>>
       THEN /\ Goto(t, "release")
            /\ UNCHANGED <<state_label, loc>>
       ELSE /\ state_label' = Merging
            /\ loc' = [loc EXCEPT ![t].branches = pending_branches,
                                  ![t].queue = pending_branches, ![t].ctx = "merge"]
            /\ Goto(t, "merge_branch")
    /\ UNCHANGED <<syncing, polling, stop_event, git_healthy, pending_branches,
                   last_commit_count, settings, kind, cmds, scan_pc, main_pc, peer, tabs, git_call, repo_config>>

\* git merge <remote>/<branch> fails: the error is logged, git merge --abort is
\* run, stop_polling(), return; the locals and the rest of the log are dropped
MergeBranchFailNoAbort(t) ==
    /\ pc[t] = "merge_branch"
    /\ state_label' = MergeFailed
    /\ stop_polling
    /\ Fail(t, "merge")
    /\ UNCHANGED <<pending_branches, last_commit_count, settings>>
    /\ Frame
MergeBranchFail(t) ==
    /\ pc[t] = "merge_branch"
    /\ state_label' = MergeFailed
    /\ stop_polling
    /\ Goto(t, "release")
    /\ loc' = [loc EXCEPT ![t] = NoLoc]
    /\ cmds' = [cmds EXCEPT ![t] = <<Cmd("log_error", "merge"), Cmd("merge_abort", 0)>>]
    /\ UNCHANGED <<pending_branches, last_commit_count, settings>>
    /\ Frame

\* git merge <remote>/<branch> succeeds
MergeBranchOk(t) ==
    /\ pc[t] = "merge_branch"
    /\ Issue(t, Cmd("merge", Head(loc[t].queue)))
    /\ loc' = [loc EXCEPT ![t].queue = Tail(@)]
    /\ Goto(t, IF Len(loc[t].queue) = 1 THEN "fan_main" ELSE "merge_branch")
    /\ UNCHANGED <<state_label, pending_branches, last_commit_count, settings,
                   polling>>
    /\ Frame

\* ---------------------------------------------------------------- finally blocks
\* sync(): finally: syncing = False, lock.release(); _do_merge(): lock.release()
ReleaseOnReturn(t) ==
    /\ pc[t] = "release"
    /\ lock' = IF loc[t].exc THEN lock ELSE NoThread
    /\ syncing' = IF kind[t] = "merge" \/ loc[t].exc THEN syncing ELSE FALSE
    /\ Goto(t, AfterCall(t, loc[t].exc))
    /\ loc' = [loc EXCEPT ![t] = NoLoc]
    /\ cmds' = [cmds EXCEPT ![t] = <<>>]
    /\ UNCHANGED <<polling, stop_event, git_healthy, state_label,
                   pending_branches, last_commit_count, settings, kind,
                   scan_pc, main_pc, peer, tabs, git_call, repo_config>>
Release(t) ==
    /\ pc[t] = "release"
    /\ lock' = NoThread
    /\ syncing' = IF kind[t] = "merge" THEN syncing ELSE FALSE
    /\ Goto(t, AfterCall(t, loc[t].exc))
    /\ loc' = [loc EXCEPT ![t] = NoLoc]
    /\ cmds' = [cmds EXCEPT ![t] = <<>>]
    /\ UNCHANGED <<polling, stop_event, git_healthy, state_label,
                   pending_branches, last_commit_count, settings, kind,
                   scan_pc, main_pc, peer, tabs, git_call, repo_config>>

\* ---------------------------------------------------------------- initial_scan()
ScanFrame == UNCHANGED <<lock, syncing, polling, stop_event,
                         settings, kind, pc, loc, cmds, main_pc, peer, tabs, git_call, repo_config>>

\* check_and_update_health(): the flag takes the result of check_git_health()
check_and_update_health ==
    /\ scan_pc = "health"
    /\ main_pc = "mainloop"
    /\ \E ok \in BOOLEAN :
        /\ git_healthy' = ok
        /\ scan_pc' = IF ok THEN "scan" ELSE "done"
    /\ UNCHANGED <<state_label, pending_branches, last_commit_count>>
    /\ ScanFrame

\* local main is ahead
ScanLocalAhead ==
    /\ scan_pc = "scan"
    /\ state_label' = LocalMainAhead
    /\ scan_pc' = "done"
    /\ UNCHANGED <<git_healthy, pending_branches, last_commit_count>>
    /\ ScanFrame

\* get_tracked_branches() raises, or commits_ahead() raises on the k-th listed
\* branch: the except clause shows ERROR
ScanFail ==
    /\ scan_pc = "scan"
    /\ \E branches \in Listings :
       \E k \in 0..Len(branches) :
       \E ahead \in [Range(branches) -> Counts] :
          last_commit_count' =
              IF k = 0 THEN last_commit_count
              ELSE recorded(last_commit_count, branches, ahead, k - 1)
    /\ state_label' = Error
    /\ scan_pc' = "done"
    /\ UNCHANGED <<git_healthy, pending_branches>>
    /\ ScanFrame

\* the scan classifies every listed branch and shows what a sync would find
ScanReport ==
    /\ scan_pc = "scan"
    /\ \E branches \in Listings :
       \E ahead \in [Range(branches) -> Counts] :
       \E behind \in [Range(branches) -> Counts] :
       LET diverged == diverged_branches(branches, ahead, behind)
           aheads == ahead_branches(branches, ahead, behind)
           names == all_names(diverged, aheads)
       IN  /\ last_commit_count' =
                  recorded(last_commit_count, branches, ahead, Len(branches))
           /\ IF Len(aheads) + Len(diverged) = 0
              THEN /\ state_label' \in {BranchesBehind, Idle}
                   /\ UNCHANGED pending_branches
              ELSE IF Len(diverged) = 0 /\ Len(aheads) = 1
              THEN /\ state_label' = OneBranchAhead
                   /\ UNCHANGED pending_branches
              ELSE /\ pending_branches' = names
                   /\ \E files \in [Range(names) -> SUBSET Files] :
                        state_label' = IF are_files_disjoint(names, files)
                                       THEN MergePossible ELSE HumanRequired
    /\ scan_pc' = "done"
    /\ UNCHANGED git_healthy
    /\ ScanFrame

initial_scan == check_and_update_health \/ ScanLocalAhead \/ ScanFail \/ ScanReport

\* positions of a thread that is inside sync() or _do_merge() past the lock test
FlightPcs == {"fetch", "list", "decide", "push_behind", "pull", "fan_main",
              "fan_list", "fan_branch", "fan_done", "merge_branch", "release"}

InFlight(t) == pc[t] \in FlightPcs

\* ---------------------------------------------------------------- specification
sync(t) == SyncSkip(t) \/ SyncBegin(t)

_do_sync(t) ==
    \/ FetchFail(t) \/ FetchOk(t)
    \/ ListFail(t) \/ ClassifyFail(t) \/ ClassifyOk(t) \/ NotifyRaise(t)
    \/ DecideIdle(t) \/ DecideBehind(t) \/ PushBehindFail(t) \/ PushBehindOk(t)
    \/ DecideStop(t)
    \/ DecidePull(t) \/ PullFail(t) \/ PullOk(t)

push_main_and_branches(t) ==
    \/ FanMainFail(t) \/ FanMainOk(t) \/ FanListFail(t) \/ FanListOk(t)
    \/ FanBranchFail(t) \/ FanBranchOk(t)
    \/ FanDoneLocalAhead(t) \/ FanDonePull(t) \/ FanDoneMerge(t)

_do_merge(t) ==
    MergeSkip(t) \/ MergeBegin(t) \/ MergeBranchFail(t) \/ MergeBranchOk(t)

polling_loop(t) == LoopExit(t) \/ LoopWait(t)

Next ==
    \/ toggle_polling
    \/ stop_all_polling
    \/ manual_sync
    \/ manual_merge
    \/ initial_scan
    \/ \E t \in Threads :
        \/ polling_loop(t)
        \/ sync(t)
        \/ _do_sync(t)
        \/ push_main_and_branches(t)
        \/ _do_merge(t)
        \/ Release(t)

Spec == Init /\ [][Next]_vars

\* ---------------------------------------------------------------- one worker, any settings
\* the persisted settings a session can find: any enabled map over the branch
\* names, either value of sync_new_branches_by_default
AllSettings ==
    {[branch_update_enabled |-> m, default_enabled |-> d,
      other_repos |-> OtherRepo] :
        m \in UNION {[D -> BOOLEAN] : D \in SUBSET Branches}, d \in BOOLEAN}

InitCycle ==
    /\ lock = NoThread
    /\ syncing = FALSE
    /\ polling = FALSE
    /\ stop_event = FALSE
    /\ git_healthy = TRUE
    /\ state_label = Idle
    /\ pending_branches = <<>>
    /\ last_commit_count = EmptyMap
    /\ settings \in AllSettings
    /\ kind = [t \in Threads |-> "none"]
    /\ pc = [t \in Threads |-> "none"]
    /\ loc = [t \in Threads |-> NoLoc]
    /\ cmds = [t \in Threads |-> <<>>]
    /\ scan_pc = "health"
    /\ main_pc = "mainloop"
    /\ peer = NoPeer
    /\ tabs = OpenTabs
    /\ git_call = NoCall
    /\ repo_config = Loaded

\* the operator switches the synchronisation of one branch on or off: the entry
\* of the branch in branchEnabled[repoPath] is written
set_branch_enabled ==
    /\ main_pc = "mainloop"
    /\ \E b \in Branches : \E v \in BOOLEAN :
        /\ Get(settings.branch_update_enabled, b, ~v) # v
        /\ settings' = [settings EXCEPT !.branch_update_enabled = Put(@, b, v)]
    /\ UNCHANGED <<lock, syncing, polling, stop_event, git_healthy, state_label,
                   pending_branches, last_commit_count, kind, pc, loc, cmds,
                   scan_pc, main_pc, peer, tabs, git_call, repo_config>>

\* the operator has started no worker thread but the first one
SingleWorker == \A t \in Threads : t # 1 => kind[t] = "none"

\* the steps of a worker that never finds the lock held
Worker(t) ==
    \/ polling_loop(t)
    \/ SyncBegin(t)
    \/ _do_sync(t)
    \/ push_main_and_branches(t)
    \/ MergeBegin(t) \/ MergeBranchFail(t) \/ MergeBranchOk(t)
    \/ Release(t)

NextCycle ==
    \/ toggle_polling /\ SingleWorker'
    \/ manual_sync /\ SingleWorker'
    \/ manual_merge /\ SingleWorker'
    \/ set_branch_enabled
    \/ initial_scan
    \/ \E t \in Threads : Worker(t)

SpecCycle == InitCycle /\ [][NextCycle]_vars

\* ---------------------------------------------------------------- the repository configuration
\* the configuration of the repository is rewritten (by the operator through
\* the application, or by anything else that writes the file): what
\* load_repo_config() returns changes; no field of the session is assigned
change_repo_config ==
    /\ \E cfg \in Configs :
        /\ cfg # repo_config.file
        /\ repo_config' = [repo_config EXCEPT !.file = cfg]
    /\ UNCHANGED <<lock, session, kind, pc, loc, cmds, scan_pc, main_pc, peer, tabs,
                   git_call>>

\* what _do_sync() hands to git: self.remote, self.main, self.prefix
CycleConfig == repo_config.self

NextConfig ==
    \/ change_repo_config
    \/ toggle_polling /\ SingleWorker'
    \/ manual_sync /\ SingleWorker'
    \/ manual_merge /\ SingleWorker'
    \/ initial_scan
    \/ \E t \in Threads : Worker(t)

SpecConfig == Init /\ [][NextConfig]_vars

\* ---------------------------------------------------------------- closing the tab, closing the window
\* self.polling_thread: the polling thread started last, if any
polling_thread ==
    {t \in Threads : kind[t] = "poll" /\ \A u \in Threads : u > t => kind[u] # "poll"}

\* self.polling_thread and self.polling_thread.is_alive()
is_alive == \E t \in polling_thread : pc[t] \notin {"exited", "crashed"}

MainFrame == UNCHANGED <<lock, syncing, git_healthy, state_label, pending_branches,
                         last_commit_count, settings, kind, pc, loc, cmds, scan_pc>>

\* close_tab(): if tab.polling: polling = False, stop_event.set(); then
\* tab.wait_for_polling_thread(timeout=5)
close_tab ==
    /\ main_pc = "mainloop"
    /\ polling' = FALSE
    /\ stop_event' = (polling \/ stop_event)
    /\ main_pc' = "close_tab"
    /\ UNCHANGED <<peer, tabs, git_call, repo_config>>
    /\ MainFrame

\* on_close(): the same signal to every tab, then
\* tab.wait_for_polling_thread(timeout=30)
on_close ==
    /\ main_pc = "mainloop"
    /\ polling' = FALSE
    /\ stop_event' = (polling \/ stop_event)
    /\ peer' = [peer EXCEPT !.polling = FALSE,
                            !.stop_event = (peer.polling \/ peer.stop_event)]
    /\ main_pc' = "on_close"
    /\ UNCHANGED <<tabs, git_call, repo_config>>
    /\ MainFrame

\* wait_for_polling_thread() returns: at once when there is no live polling
\* thread, else when the join ends: the thread finished, or the timeout ran out
\* on a thread that is inside a cycle (git commands of up to 30 s each) or that
\* sleeps its interval with the event clear; close_tab goes on to tab.destroy()
\* and del self.tabs[tab_name] / del self.tab_paths[tab_name], on_close to
\* self.destroy(), which ends the process and its daemon threads
wait_for_polling_thread ==
    /\ main_pc \in {"close_tab", "on_close"}
    /\ \/ ~is_alive
       \/ \E t \in polling_thread :
             pc[t] \notin {"exited", "crashed"} /\ (InFlight(t) \/ ~stop_event)
    /\ main_pc' = IF main_pc = "close_tab" THEN "tab_closed" ELSE "exited"
    /\ tabs' = IF main_pc = "close_tab"
               THEN SelectSeq(tabs, LAMBDA tab : tab.repo_path # ThisPath)
               ELSE tabs
    /\ UNCHANGED <<polling, stop_event, peer, git_call, repo_config>>
    /\ MainFrame

\* the threads of the session run as long as the process does
Running == main_pc # "exited"

NextClose ==
    \/ toggle_polling /\ SingleWorker'
    \/ manual_sync /\ SingleWorker'
    \/ manual_merge /\ SingleWorker'
    \/ close_tab
    \/ on_close
    \/ wait_for_polling_thread
    \/ Running /\ initial_scan
    \/ Running /\ \E t \in Threads : Worker(t)

SpecClose == Init /\ [][NextClose]_vars

\* ---------------------------------------------------------------- two sessions
\* what no step of the second tab touches: everything of this tab, the settings
PeerFrame == UNCHANGED <<lock, session, kind, pc, loc, cmds, scan_pc, main_pc, tabs,
                         git_call, repo_config>>

\* toggle_polling() on the second tab: stop its loop, or start one (its polling
\* thread, if it had one, has ended)
peer_toggle_polling ==
    /\ main_pc = "mainloop"
    /\ IF peer.polling
       THEN peer' = [peer EXCEPT !.polling = FALSE, !.stop_event = TRUE]
       ELSE /\ peer.pc \in {"none", "exited", "crashed"}
            /\ peer' = [peer EXCEPT !.polling = TRUE, !.stop_event = FALSE,
                                    !.pc = "loop_head"]
    /\ PeerFrame

\* polling_loop() of the second tab: while not self.stop_event.is_set()
PeerLoopExit ==
    /\ peer.pc = "loop_head" /\ peer.stop_event
    /\ peer' = [peer EXCEPT !.pc = "exited"]
    /\ PeerFrame

\* if self.stop_event.wait(timeout=interval): break
PeerLoopWait ==
    /\ peer.pc = "wait"
    /\ peer' = [peer EXCEPT !.pc = IF peer.stop_event THEN "exited" ELSE "loop_head"]
    /\ PeerFrame

\* a lock id no thread of this tab has
PeerHolder == MaxThreads + 1

\* sync() of the second tab: self.lock.acquire(blocking=False) on its own lock,
\* syncing on, _do_sync() starts
PeerSyncBeginSharedLock ==
    /\ peer.pc = "loop_head" /\ ~peer.stop_event
    /\ acquire(lock)
    /\ lock' = PeerHolder
    /\ peer' = [peer EXCEPT !.lock = TRUE, !.syncing = TRUE, !.pc = "cycle"]
    /\ UNCHANGED <<session, kind, pc, loc, cmds, scan_pc, main_pc, tabs, git_call, repo_config>>
PeerSyncBegin ==
    /\ peer.pc = "loop_head" /\ ~peer.stop_event
    /\ ~peer.lock
    /\ peer' = [peer EXCEPT !.lock = TRUE, !.syncing = TRUE, !.pc = "cycle"]
    /\ PeerFrame

\* _do_sync() of the second tab ends, on its own repository: it returns, with
\* or without stop_polling() called, or raises; finally: syncing off, lock
\* released
PeerSyncEnd ==
    /\ peer.pc \in {"cycle", "pruned"}
    /\ \E outcome \in {"go_on", "halt", "raise"} :
         peer' = [peer EXCEPT !.lock = FALSE, !.syncing = FALSE,
                              !.polling = IF outcome = "halt" THEN FALSE ELSE @,
                              !.pc = IF outcome = "raise" THEN "crashed" ELSE "wait"]
    /\ PeerFrame

\* _do_sync() of the second tab reaches its listing: settings =
\* load_global_settings(); the local dict is held in a one-element sequence
PeerLoadSettings ==
    /\ peer.pc = "cycle" /\ peer.settings = <<>>
    /\ peer' = [peer EXCEPT !.settings = <<settings>>]
    /\ PeerFrame

\* the second tab deletes from its local dict the entries of its own
\* repository whose branch is not listed and, if it deleted any,
\* save_global_settings(settings) writes the whole dict
PeerSaveSettings ==
    /\ peer.pc = "cycle" /\ peer.settings # <<>>
    /\ \E all_branches \in Listings :
        LET loaded == peer.settings[1]
            pruned == [loaded EXCEPT !.other_repos =
                          [b \in DOMAIN @ \cap Range(all_branches) |-> @[b]]]
        IN  settings' = IF pruned # loaded THEN pruned ELSE settings
    /\ peer' = [peer EXCEPT !.settings = <<>>, !.pc = "pruned"]
    /\ UNCHANGED <<lock, syncing, polling, stop_event, git_healthy, state_label,
                   pending_branches, last_commit_count, kind, pc, loc, cmds,
                   scan_pc, main_pc, tabs, git_call, repo_config>>

peer_polling_loop == PeerLoopExit \/ PeerLoopWait

peer_sync == PeerSyncBegin \/ PeerSyncEnd

NextTwo ==
    \/ toggle_polling /\ SingleWorker'
    \/ manual_sync /\ SingleWorker'
    \/ manual_merge /\ SingleWorker'
    \/ stop_all_polling
    \/ peer_toggle_polling
    \/ peer_polling_loop
    \/ peer_sync
    \/ initial_scan
    \/ \E t \in Threads : Worker(t)

SpecTwo == Init /\ [][NextTwo]_vars

\* two sessions and the settings they share
NextStore ==
    \/ toggle_polling /\ SingleWorker'
    \/ manual_sync /\ SingleWorker'
    \/ peer_toggle_polling
    \/ peer_polling_loop
    \/ peer_sync
    \/ PeerLoadSettings
    \/ PeerSaveSettings
    \/ \E t \in Threads :
        \/ polling_loop(t)
        \/ SyncBegin(t)
        \/ _do_sync(t)
        \/ FanMainFail(t) \/ FanMainOk(t) \/ FanListFail(t) \/ FanListOk(t)
        \/ FanBranchFail(t) \/ FanBranchOk(t)
        \/ FanDoneLocalAhead(t) \/ FanDonePull(t)
        \/ Release(t)

SpecStore == Init /\ [][NextStore]_vars

\* ---------------------------------------------------------------- adding and removing repositories
\* the keys of self.tabs and the values of self.tab_paths
tab_names == {tabs[i].tab_name : i \in 1..Len(tabs)}
tab_paths_values == {tabs[i].repo_path : i \in 1..Len(tabs)}

\* add_repo(): tab_name = repo_name; while tab_name in self.tabs: counter += 1,
\* tab_name = f"{repo_name} ({counter})"
RECURSIVE free_tab_name(_, _, _)
free_tab_name(repo_name, names, counter) ==
    LET tab_name == IF counter = 1 THEN repo_name ELSE Append(repo_name, counter)
    IN  IF tab_name \in names THEN free_tab_name(repo_name, names, counter + 1)
        ELSE tab_name

\* add_repo(repo_path): repo_name = Path(repo_path).name; the tab is entered in
\* self.tabs and self.tab_paths under its tab_name
add_repo(repo_path) ==
    tabs' = Append(tabs, [tab_name |-> free_tab_name(repo_path.name, tab_names, 1),
                          repo_path |-> repo_path])

AppFrame == UNCHANGED <<lock, session, kind, pc, loc, cmds, scan_pc, main_pc, peer,
                        git_call, repo_config>>

\* add_repo_dialog(): the operator picks a directory that is a git repository;
\* a path that is already among self.tab_paths.values() is refused
add_repo_dialog_unchecked ==
    /\ main_pc \in {"mainloop", "tab_closed"}
    /\ Len(tabs) < MaxTabs
    /\ \E path \in Paths : add_repo(path)
    /\ AppFrame
add_repo_dialog ==
    /\ main_pc \in {"mainloop", "tab_closed"}
    /\ Len(tabs) < MaxTabs
    /\ \E path \in Paths :
        /\ path \notin tab_paths_values
        /\ add_repo(path)
    /\ AppFrame

\* close_tab(tab_name) of a tab whose session is at rest (not polling, no live
\* polling thread): nothing to signal, nothing to wait for; the tab is deleted
\* from self.tabs and self.tab_paths
close_idle_tab ==
    /\ main_pc \in {"mainloop", "tab_closed"}
    /\ \E i \in 1..Len(tabs) :
        /\ tabs[i].repo_path # ThisPath
        /\ tabs[i].repo_path = PeerPath
              => (~peer.polling /\ peer.pc \in {"none", "exited", "crashed"})
        /\ tabs' = SelectSeq(tabs, LAMBDA tab : tab.tab_name # tabs[i].tab_name)
    /\ AppFrame

NextTabs ==
    \/ add_repo_dialog
    \/ close_idle_tab
    \/ close_tab
    \/ wait_for_polling_thread

SpecTabs == Init /\ [][NextTabs]_vars

\* ---------------------------------------------------------------- git_utils on its own
\* the application as Init has it, with no word on git_call
AppAtStart ==
    /\ lock = NoThread
    /\ syncing = FALSE
    /\ polling = FALSE
    /\ stop_event = FALSE
    /\ git_healthy = TRUE
    /\ state_label = Idle
    /\ pending_branches = <<>>
    /\ last_commit_count = EmptyMap
    /\ settings \in InitSettings
    /\ kind = [t \in Threads |-> "none"]
    /\ pc = [t \in Threads |-> "none"]
    /\ loc = [t \in Threads |-> NoLoc]
    /\ cmds = [t \in Threads |-> <<>>]
    /\ scan_pc = "health"
    /\ main_pc = "mainloop"
    /\ peer = NoPeer
    /\ tabs = OpenTabs
    /\ repo_config = Loaded

CallFrame == UNCHANGED <<lock, session, kind, pc, loc, cmds, scan_pc, main_pc, peer,
                         tabs, repo_config>>

\* the function returns
Returns(f, ret) ==
    /\ git_call.f = f /\ git_call.ret = Pending
    /\ git_call' = [git_call EXCEPT !.ret = ret]
    /\ CallFrame

\* text written by a process: tokens, of which " " and "\n" are whitespace
Whitespace == {" ", "\n"}
Tokens == {"a", " ", "\n"}
Texts == UNION {[1..n -> Tokens] : n \in 0..MaxText}

\* str.strip()
RECURSIVE lstrip(_)
lstrip(text) ==
    IF text # <<>> /\ Head(text) \in Whitespace THEN lstrip(Tail(text)) ELSE text

RECURSIVE rstrip(_)
rstrip(text) ==
    IF text # <<>> /\ text[Len(text)] \in Whitespace
    THEN rstrip(SubSeq(text, 1, Len(text) - 1)) ELSE text

strip(text) == rstrip(lstrip(text))

\* the exception classes subprocess.run can raise here, each with its base class
Base(cls) ==
    CASE cls = "TimeoutExpired" -> "SubprocessError"
      [] cls = "SubprocessError" -> "Exception"
      [] cls = "FileNotFoundError" -> "OSError"
      [] cls = "PermissionError" -> "OSError"
      [] cls = "OSError" -> "Exception"
      [] cls = "ValueError" -> "Exception"
      [] cls = "Exception" -> "BaseException"
      [] OTHER -> "object"

\* isinstance(e, cls) for an exception e of class c
RECURSIVE isinstance(_, _)
isinstance(c, cls) ==
    IF c = cls THEN TRUE
    ELSE IF c = "object" THEN FALSE
    ELSE isinstance(Base(c), cls)

Raised == {"TimeoutExpired", "FileNotFoundError", "PermissionError", "OSError",
           "ValueError"}

\* what a call of subprocess.run(cmd, ..., timeout=30) ends in: the process
\* exits, or run raises an exception of some class with some text str(e)
Commands == {<<"git", "fetch">>, <<"/opt/git/bin/git", "push">>}
Outcomes ==
    [cmd : Commands, kind : {"exit"}, returncode : ExitCodes, stdout : Texts,
     stderr : Texts]
    \cup [cmd : Commands, kind : {"raise"}, exc : Raised,
          text : {<<>>, <<"a">>, <<" ", "a">>}]

\* run_git(cmd, cwd): (returncode, stdout.strip(), stderr.strip()), or the
\* result of the first except clause that matches
run_git_no_catch_all(o) ==
    IF o.kind = "exit"
    THEN Result(o.returncode, strip(o.stdout), strip(o.stderr))
    ELSE IF isinstance(o.exc, "TimeoutExpired")
    THEN Result(1, <<>>, <<"Timeout">>)
    ELSE IF isinstance(o.exc, "FileNotFoundError")
    THEN Result(1, <<>>, <<"Command not found: ", o.cmd[1]>>)
    ELSE [raised |-> TRUE, exc |-> o.exc]
run_git(o) ==
    IF o.kind = "exit"
    THEN Result(o.returncode, strip(o.stdout), strip(o.stderr))
    ELSE IF isinstance(o.exc, "TimeoutExpired")
    THEN Result(1, <<>>, <<"Timeout">>)
    ELSE IF isinstance(o.exc, "FileNotFoundError")
    THEN Result(1, <<>>, <<"Command not found: ", o.cmd[1]>>)
    ELSE IF isinstance(o.exc, "Exception")
    THEN Result(1, <<>>, o.text)
    ELSE [raised |-> TRUE, exc |-> o.exc]

InitRun ==
    /\ AppAtStart
    /\ git_call \in [f : {"run_git"}, arg : Outcomes, ret : {Pending}]

run_git_returns == Returns("run_git", run_git(git_call.arg))

SpecRun == InitRun /\ [][run_git_returns]_vars

\* ------------------------------------------------- git_utils: changed files
\* the branch lists are_files_disjoint() is called with
BranchLists == UNION {[1..n -> Branches] : n \in 0..MaxList}

\* all_files: one set a position of the list
all_files(a) == [b \in Range(a.branches) |-> get_changed_files(a.diff[b])]

InitDisjoint ==
    /\ AppAtStart
    /\ git_call \in [f : {"are_files_disjoint"},
                     arg : [branches : BranchLists, diff : [Branches -> Diffs]],
                     ret : {Pending}]

are_files_disjoint_returns ==
    Returns("are_files_disjoint",
            Value(are_files_disjoint(git_call.arg.branches, all_files(git_call.arg))))

SpecDisjoint == InitDisjoint /\ [][are_files_disjoint_returns]_vars

\* ------------------------------------------------- git_utils: commit counts
\* two refs of one repository, whose rev-list answers do not change between
\* the two calls
CountCalls ==
    UNION {[base : {b}, tip : {t},
            rev_list : [{Range2(b, t), Range2(t, b)} -> RevLists]] : b, t \in Refs}

InitCounts ==
    /\ AppAtStart
    /\ git_call \in [f : {"commit_counts"}, arg : CountCalls,
                     ret : {[ahead |-> Pending, behind |-> Pending]}]

\* commits_ahead(base, tip) returns
commits_ahead_returns ==
    /\ git_call.f = "commit_counts" /\ git_call.ret.ahead = Pending
    /\ LET a == git_call.arg
       IN  git_call' = [git_call EXCEPT
                           !.ret.ahead = commits_ahead(a.base, a.tip, a.rev_list)]
    /\ CallFrame

\* commits_behind(tip, base) returns
commits_behind_returns ==
    /\ git_call.f = "commit_counts" /\ git_call.ret.behind = Pending
    /\ LET a == git_call.arg
       IN  git_call' = [git_call EXCEPT
                           !.ret.behind = commits_behind(a.tip, a.base, a.rev_list)]
    /\ CallFrame

NextCounts == commits_ahead_returns \/ commits_behind_returns

SpecCounts == InitCounts /\ [][NextCounts]_vars

\* ---------------------------------------------------------------- properties
\* thread t is at the lock test of sync() or _do_merge()
Attempting(t) == CallsSync(t) \/ (kind[t] = "merge" /\ pc[t] = "merge")

\* C1: at most one sync cycle or merge execution is in flight at any time (every
\* thread inside one is the holder of the session lock), and an attempt made
\* while the lock is held is skipped: the thread returns at once without the
\* lock, and a skipped manual sync or merge worker never runs afterwards.
C1_OneInFlight ==
    /\ [](\A t \in Threads : InFlight(t) => lock = t)
    /\ [][\A t \in Threads :
            /\ (Attempting(t) /\ lock # NoThread /\ pc'[t] # pc[t])
                   => (pc'[t] = AfterSkip(t) /\ lock' = lock)
            /\ pc[t] = "skipped" => pc'[t] = "skipped"]_vars

\* C1 witness: one thread is inside an execution while another one has been
\* turned away at the lock test.
C1_Witness ==
    \E t, u \in Threads : InFlight(t) /\ lock = t /\ pc[u] = "skipped"

\* C2: the polling loop starts a cycle only while isPolling is true: once a
\* cycle has ended in a halting outcome (stop_polling cleared the flag), no
\* loop of the session begins another cycle until the operator starts polling.
C2_HaltStopsLoop ==
    [][\A t \in Threads :
         (kind[t] = "poll" /\ pc[t] = "loop_head" /\ pc'[t] = "fetch") => polling]_vars

\* the classification a cycle holds at its decision point
IsDiverged(l, b) == l.ahead[b] > 0 /\ l.behind[b] > 0
IsAheadOnly(l, b) == l.ahead[b] > 0 /\ l.behind[b] = 0
Blocked(l) == {b \in Range(l.branches) : IsDiverged(l, b) \/ IsAheadOnly(l, b)}
Position(s, b) == CHOOSE i \in 1..Len(s) : s[i] = b

\* s lists exactly the blocked branches, diverged ones first, each group in
\* listing order
IsBlockedList(l, s) ==
    /\ Len(s) = Cardinality(Blocked(l))
    /\ Range(s) = Blocked(l)
    /\ \A i, j \in 1..Len(s) :
         i < j => \/ IsDiverged(l, s[i]) /\ IsAheadOnly(l, s[j])
                  \/ /\ IsDiverged(l, s[i]) <=> IsDiverged(l, s[j])
                     /\ Position(l.branches, s[i]) < Position(l.branches, s[j])

PairwiseDisjoint(s, files) ==
    \A i, j \in 1..Len(s) : i # j => files[s[i]] \cap files[s[j]] = {}

Mutating == {"push", "push_main", "pull", "merge"}

\* C3: at the decision point of a cycle (fetch passed, local main not ahead), if
\* an enabled branch is Diverged or at least two enabled branches are Ahead or
\* Diverged, the cycle has issued no pull, push or merge and issues none (it
\* goes straight to its end), pendingBranches becomes exactly those branches,
\* diverged first then ahead-only, each in listing order, and the state becomes
\* MergePossible if their changed-file sets are pairwise disjoint and
\* HumanRequired otherwise.
C3_StopRow ==
    [][\A t \in Threads :
         (/\ pc[t] = "decide" /\ pc'[t] # "decide"
          /\ \/ \E b \in Range(loc[t].branches) : IsDiverged(loc[t], b)
             \/ Cardinality(Blocked(loc[t])) >= 2)
         => /\ pc'[t] = "release"
            /\ \A i \in 1..Len(cmds[t]) : cmds[t][i].op \notin Mutating
            /\ cmds'[t] = <<>>
            /\ IsBlockedList(loc[t], pending_branches')
            /\ state_label' = IF PairwiseDisjoint(pending_branches', loc'[t].files)
                              THEN MergePossible ELSE HumanRequired]_vars

\* C3 witness: a cycle has just applied the stop row to a diverged branch 2 and
\* an ahead-only branch 1.
C3_Witness ==
    \E t \in Threads :
        /\ pc[t] = "release" /\ DOMAIN loc[t].files = {1, 2}
        /\ pending_branches = <<2, 1>>
        /\ state_label = MergePossible

\* C4: a manual merge goes past its guard (and merges) only when the state is
\* MergePossible.
C4_MergeOnlyWhenPossible ==
    [][\A t \in Threads :
         (kind[t] = "merge" /\ pc[t] = "merge" /\ pc'[t] = "merge_branch")
            => state_label = MergePossible]_vars

\* C5: whenever the session is at rest (no execution in flight, initial scan
\* over), pendingBranches is non-empty only if the state is MergePossible or
\* HumanRequired.
C5_PendingOnlyWhenStopped ==
    (lock = NoThread /\ scan_pc = "done" /\ pending_branches # <<>>)
        => state_label \in {MergePossible, HumanRequired}

\* C6: no sync cycle begins while the session's health flag is false.
C6_UnhealthyNeverRuns ==
    [][\A t \in Threads :
         (kind[t] \in {"poll", "manual"} /\ pc[t] # "fetch" /\ pc'[t] = "fetch")
            => git_healthy]_vars

\* C7: the first command of every sync cycle is the health check, so a fetch is
\* never the first thing a cycle runs.
C7_CycleRechecksHealth ==
    \A t \in Threads :
        cmds[t] # <<>> => cmds[t][1].op = "check_health"

\* C8: a failure of the branch listing or of the ahead count ends the cycle with
\* Error and the scheduler halted, and no worker thread is killed by an error
\* escaping from it.
C8_FailuresCaught ==
    \A t \in Threads :
        /\ (pc[t] = "release" /\ loc[t].exc) => (state_label = Error /\ ~polling)
        /\ pc[t] # "crashed"

\* C9: the worker of a manual sync (started only on a healthy session) begins a
\* cycle at its lock test exactly when the lock is free, whatever isPolling is;
\* when the lock is held it ends skipped, leaving pendingBranches,
\* lastCommitCount, syncState and isPolling as they were; it begins no cycle at
\* any other point, and once it has ended it does nothing more.
C9_ManualSyncOnceOrDropped ==
    [][\A t \in Threads :
         /\ (kind[t] = "none" /\ kind'[t] = "manual") => git_healthy
         /\ kind[t] = "manual" =>
              /\ (pc[t] = "sync" /\ pc'[t] # "sync") =>
                    IF lock = NoThread
                    THEN pc'[t] = "fetch" /\ lock' = t
                    ELSE /\ pc'[t] = "skipped"
                         /\ UNCHANGED <<pending_branches, last_commit_count,
                                        state_label, polling, lock>>
              /\ pc'[t] = "fetch" => pc[t] \in {"sync", "fetch"}
              /\ pc[t] \in {"skipped", "done", "crashed"} => pc'[t] = pc[t]]_vars

\* C9 witness: one manual sync is running its cycle with the scheduler off while
\* a second manual sync has been dropped.
C9_Witness ==
    \E t, u \in Threads :
        /\ kind[t] = "manual" /\ InFlight(t) /\ ~polling
        /\ kind[u] = "manual" /\ pc[u] = "skipped"

\* C10: a session has at most one live polling loop.
C10_OneLoop ==
    Cardinality({t \in Threads : kind[t] = "poll" /\ pc[t] \notin {"exited", "crashed"}})
        <= 1

\* the steps of an execution that holds the lock
CycleStep(t) ==
    _do_sync(t) \/ push_main_and_branches(t) \/ _do_merge(t) \/ Release(t)

\* C11: a stop request (the cancellation signal being raised) changes nothing of
\* an execution in flight: position, locals, log and lock stay as they are, and
\* the execution can always take its next step up to the release of the lock.
\* A polling loop that finds the signal set at its wait or at its loop
\* condition ends there, an ended loop stays ended, and a loop begins a cycle
\* only from its loop condition with the signal clear.
C11_StopNeverPreempts ==
    /\ [][(stop_event' /\ ~stop_event)
            => UNCHANGED <<lock, syncing, pc, loc, cmds>>]_vars
    /\ [](\A t \in Threads : InFlight(t) => ENABLED CycleStep(t))
    /\ [][\A t \in Threads : kind[t] = "poll" =>
            /\ (pc[t] \in {"wait", "loop_head"} /\ stop_event /\ pc'[t] # pc[t])
                   => pc'[t] = "exited"
            /\ pc[t] = "exited" => pc'[t] = "exited"
            /\ (pc'[t] = "fetch" /\ pc[t] # "fetch")
                   => (pc[t] = "loop_head" /\ ~stop_event)]_vars

\* C11 witness: the cycle of a polling loop has run to its end under a stop
\* request and is about to release the lock.
C11_Witness ==
    \E t \in Threads :
        kind[t] = "poll" /\ pc[t] = "release" /\ lock = t /\ stop_event /\ ~polling

\* C12: once the tab has been closed (or the window has been closed and the
\* process ended), no polling loop of the session is alive, no sync cycle or
\* merge of the session is in flight and none is about to start.
C12_ClosedMeansQuiet ==
    main_pc \in {"tab_closed", "exited"}
        => \A t \in Threads :
               /\ ~InFlight(t)
               /\ pc[t] \notin {"loop_head", "wait", "sync", "merge"}

\* the ops of a log
Ops(log) == {log[i].op : i \in 1..Len(log)}

FanPcs == {"fan_main", "fan_list", "fan_branch", "fan_done"}

\* C14: a cycle that found local main ahead by n > 0 after its fetch goes
\* straight to the push fan-out: every step it takes from there stays inside the
\* fan-out or ends the cycle, and leaves lastCommitCount, pendingBranches and
\* the settings as they are; it issues nothing but pushes after its fetch (no
\* settings write, no new-commit notification, no pull, no merge). When the
\* fan-out has succeeded the cycle ends in SyncOK and reports n pushed commits.
C14_LocalAheadFirst ==
    [][\A t \in Threads :
         /\ (pc[t] = "fetch" /\ pc'[t] = "fan_main")
            => /\ loc'[t].ctx = "local_ahead" /\ loc'[t].local_ahead > 0
               /\ cmds'[t] = <<Cmd("fetch", 0)>>
               /\ UNCHANGED <<last_commit_count, pending_branches, settings,
                              state_label, polling>>
         /\ (loc[t].ctx = "local_ahead" /\ (pc'[t] # pc[t] \/ loc'[t] # loc[t]))
            => /\ pc[t] \in FanPcs
               /\ pc'[t] \in FanPcs \cup {"release"}
               /\ Ops(cmds[t]) \subseteq {"fetch", "push_main", "push"}
               /\ UNCHANGED <<last_commit_count, pending_branches, settings>>
         /\ (pc[t] = "fan_done" /\ loc[t].ctx = "local_ahead" /\ pc'[t] # "fan_done")
            => /\ pc'[t] = "release"
               /\ state_label' = SyncOK
               /\ cmds'[t] = <<Cmd("info_pushed", loc[t].local_ahead)>>
               /\ loc[t].local_ahead > 0]_vars

\* C14 witness: a cycle has pushed local main and the branches and reports one
\* pushed commit under Sync OK.
C14_Witness ==
    \E t \in Threads :
        /\ pc[t] = "release" /\ state_label = SyncOK
        /\ cmds[t] = <<Cmd("info_pushed", 1)>>

C18_IdleRow ==
    [][\A t \in Threads :
         /\ (pc'[t] # pc[t] /\ state_label' = Idle /\ state_label # Idle)
            => (pc[t] = "decide" /\ pc'[t] = "release" /\ Blocked(loc[t]) = {})
         /\ (pc[t] = "decide" /\ pc'[t] = "release" /\ Blocked(loc[t]) = {})
            => /\ state_label' = Idle
               /\ Ops(cmds[t]) \cap Mutating = {}
               /\ cmds'[t] = <<>>
               /\ ~loc'[t].exc
               /\ last_commit_count' = EmptyMap
               /\ UNCHANGED <<polling, stop_event, pending_branches, settings>>
         /\ (pc[t] = "decide" /\ pc'[t] # "decide" /\ Blocked(loc[t]) = {})
            => \/ pc'[t] = "release" /\ state_label' = Idle
               \/ pc'[t] = "push_behind"
         /\ (pc[t] \in {"loop_head", "sync", "fetch"} /\ pc'[t] # pc[t])
            => UNCHANGED last_commit_count
         /\ (pc[t] = "list" /\ pc'[t] = "decide" /\ Blocked(loc'[t]) = {})
            => UNCHANGED last_commit_count]_vars

\* C18 witness: a cycle of the polling loop has ended in Idle with
\* lastCommitCount empty and polling still on.
C18_Witness ==
    \E t \in Threads :
        /\ kind[t] = "poll" /\ pc[t] = "release" /\ ~loc[t].exc /\ cmds[t] = <<>>
        /\ state_label = Idle /\ last_commit_count = EmptyMap
        /\ polling /\ ~stop_event

\* how many entries of a log carry the op
Count(log, op) == Cardinality({i \in 1..Len(log) : log[i].op = op})

\* C19: the step in which a cycle completes its classification fires the
\* new-commit notification at most once, and fires it if and only if some
\* enabled listed branch has an ahead count greater than the count recorded
\* for it before the step (0 when none is recorded): in particular not when
\* every branch shows the count that is recorded for it. After the step
\* every enabled branch with ahead > 0 has the observed count recorded and every
\* other entry of lastCommitCount is as before. The notification is issued
\* nowhere else in a cycle, so never twice in one.
C19_NewCommitEvent ==
    [][\A t \in Threads :
         /\ (pc[t] = "list" /\ pc'[t] = "decide")
            => LET l == loc'[t]
                   news == {b \in Range(l.branches) :
                               l.ahead[b] > Get(last_commit_count, b, 0)}
               IN  /\ Count(cmds'[t], "notify") = (IF news # {} THEN 1 ELSE 0)
                   /\ (\A b \in Range(l.branches) :
                          l.ahead[b] = Get(last_commit_count, b, 0))
                         => "notify" \notin Ops(cmds'[t])
                   /\ \A b \in Range(l.branches) :
                         l.ahead[b] > 0
                            => (b \in DOMAIN last_commit_count'
                                  /\ last_commit_count'[b] = l.ahead[b])
                   /\ \A b \in Branches :
                         (b \notin Range(l.branches) \/ l.ahead[b] = 0)
                            => /\ b \in DOMAIN last_commit_count'
                                    <=> b \in DOMAIN last_commit_count
                               /\ Get(last_commit_count', b, 0)
                                    = Get(last_commit_count, b, 0)
         /\ Count(cmds'[t], "notify") > Count(cmds[t], "notify")
            => (pc[t] = "list" /\ pc'[t] = "decide")
         /\ Count(cmds'[t], "notify") <= 1]_vars

\* C19 witness: a cycle has completed its classification, has fired the
\* notification for branch 2, newly ahead, while branch 1 shows the count that
\* was already recorded.
C19_Witness ==
    \E t \in Threads :
        /\ pc[t] = "decide"
        /\ Count(cmds[t], "notify") = 1
        /\ loc[t].branches = <<1, 2>>
        /\ loc[t].ahead[1] = 1 /\ loc[t].ahead[2] = 1
        /\ last_commit_count = [b \in {1, 2} |-> 1]

\* the settings st with exactly the entries of this repository whose branch is
\* not in the listing removed
Pruned(st, listing) ==
    [branch_update_enabled |->
         [b \in {x \in DOMAIN st.branch_update_enabled : x \in Range(listing)}
              |-> st.branch_update_enabled[b]],
     default_enabled |-> st.default_enabled,
     other_repos |-> st.other_repos]

Merged(branches, n) == [i \in 1..n |-> Cmd("merge", branches[i])]

\* C21: a manual merge that finds branches pending takes them as they are in
\* pendingBranches at that moment and merges them one at a time in that order,
\* holding the session lock: at every point of the merge loop the log holds the
\* merges of a prefix of that list and the rest is still to merge. A merge
\* step either merges the first remaining branch (the push fan-out begins only
\* after the last one) or fails: then a merge abort is issued, no further
\* branch is merged, nothing has been or is pushed, the execution ends with the
\* merge-failed Error, stop_polling() called, and pendingBranches left as it
\* was, non-empty. When the fan-out has succeeded, every branch of the list
\* was merged in order before the push of main, pendingBranches and
\* lastCommitCount are emptied and "Merge OK" is reported.
C21_ManualMerge ==
    /\ [](\A t \in Threads : pc[t] = "merge_branch" =>
            /\ lock = t
            /\ loc[t].queue # <<>>
            /\ pending_branches # <<>>
            /\ \E n \in 0..(Len(loc[t].branches) - 1) :
                  /\ cmds[t] = Merged(loc[t].branches, n)
                  /\ loc[t].queue =
                        SubSeq(loc[t].branches, n + 1, Len(loc[t].branches)))
    /\ [][\A t \in Threads :
            /\ (pc'[t] = "merge_branch" /\ pc[t] # "merge_branch")
               => /\ kind[t] = "merge" /\ pc[t] = "merge" /\ lock' = t
                  /\ loc'[t].branches = pending_branches
                  /\ pending_branches # <<>>
                  /\ UNCHANGED <<pending_branches, last_commit_count, polling>>
            /\ (pc[t] = "merge_branch" /\ (pc'[t] # pc[t] \/ cmds'[t] # cmds[t]))
               => \/ /\ cmds'[t] = Append(cmds[t], Cmd("merge", Head(loc[t].queue)))
                     /\ loc'[t].queue = Tail(loc[t].queue)
                     /\ pc'[t] = IF loc'[t].queue = <<>> THEN "fan_main"
                                                        ELSE "merge_branch"
                     /\ UNCHANGED <<state_label, pending_branches,
                                    last_commit_count, polling>>
                  \/ /\ pc'[t] = "release"
                     /\ cmds'[t] = <<Cmd("log_error", "merge"), Cmd("merge_abort", 0)>>
                     /\ state_label' = MergeFailed
                     /\ ~polling'
                     /\ ~loc'[t].exc
                     /\ pending_branches' = pending_branches
            /\ (pc'[t] = "fan_main" /\ pc[t] # "fan_main" /\ loc'[t].ctx = "merge")
               => /\ pc[t] = "merge_branch"
                  /\ cmds'[t] = Merged(loc[t].branches, Len(loc[t].branches))
            /\ (cmds'[t] # cmds[t] /\ cmds'[t] # <<>>
                   /\ cmds'[t][Len(cmds'[t])].op \in {"merge", "merge_abort"})
               => pc[t] = "merge_branch"
            /\ (pc[t] = "fan_done" /\ loc[t].ctx = "merge" /\ pc'[t] # "fan_done")
               => /\ pc'[t] = "release"
                  /\ pending_branches' = <<>>
                  /\ last_commit_count' = EmptyMap
                  /\ state_label' = MergeOK
                  /\ ~loc'[t].exc
                  /\ Len(cmds[t]) > Len(loc[t].branches)
                  /\ SubSeq(cmds[t], 1, Len(loc[t].branches) + 1)
                        = Append(Merged(loc[t].branches, Len(loc[t].branches)),
                                 Cmd("push_main", 0))]_vars

\* C21 witness: a manual merge with <<2, 1>> pending (branch 2 diverged, branch
\* 1 ahead) has failed: abort issued, merge-failed Error, both branches still
\* pending.
C21_Witness ==
    \E t \in Threads :
        /\ kind[t] = "merge" /\ pc[t] = "release"
        /\ cmds[t] = <<Cmd("log_error", "merge"), Cmd("merge_abort", 0)>>
        /\ state_label = MergeFailed
        /\ pending_branches = <<2, 1>>

\* C22: within one cycle the push fan-out targets the tracked branches that
\* were enabled when the cycle classified its branches: the targets of the
\* fan-out after a pull are the branches of its listing that are enabled in the
\* map the cycle held at its classification, whatever the operator has written
\* to the map since.
C22_FanOutUsesCycleMap ==
    [][\A t \in Threads :
         (pc[t] = "fan_list" /\ loc[t].ctx = "pull" /\ pc'[t] \in {"fan_branch", "fan_done"})
            => \E all_branches \in Listings :
                  loc'[t].queue =
                      SelectSeq(all_branches,
                                LAMBDA b : Get(loc[t].branch_states, b,
                                               settings.default_enabled))]_vars

\* the polling loops of the session that have not ended
LiveLoops == {t \in Threads : kind[t] = "poll" /\ pc[t] \notin {"exited", "crashed"}}

\* C23: isPolling is true exactly when the scheduler loop is active: while the
\* polling flag is set a live polling loop exists, and while it is clear no
\* polling loop stands at its loop condition about to begin a cycle (signal
\* clear, lock free).
C23_PollingIffLoopActive ==
    /\ polling => LiveLoops # {}
    /\ ~polling => \A t \in LiveLoops :
                      ~(pc[t] = "loop_head" /\ ~stop_event /\ acquire(lock))

\* everything of this session
session1 == <<lock, session, kind, pc, loc, cmds, scan_pc>>

\* C24: the two sessions run independently. A step changes both sessions only
\* when it is the operator's stop-all command; every other step of one session
\* leaves the lock, flags, stop event, threads and state of the other as they
\* are. Whatever the other session is doing (also with its cycle in flight), a
\* worker of this session at its lock test, no execution of this session being
\* in flight, takes the lock and begins (it can not be turned away), and the
\* polling loop of the second session at its loop condition with its own
\* signal clear begins its cycle.
C24_SessionsIndependent ==
    /\ [][(peer' # peer /\ session1' # session1) => stop_all_polling]_vars
    /\ [](\A t \in Threads :
            (Attempting(t) /\ \A u \in Threads : ~InFlight(u))
               => /\ ENABLED (SyncBegin(t) \/ MergeBegin(t))
                  /\ ~ENABLED (SyncSkip(t) \/ MergeSkip(t)))
    /\ []((peer.pc = "loop_head" /\ ~peer.stop_event) => ENABLED PeerSyncBegin)

\* C24 witness: a cycle of each session is in flight at the same time, each
\* holding its own lock.
C24_Witness ==
    \E t \in Threads :
        /\ kind[t] = "poll" /\ InFlight(t) /\ lock = t
        /\ peer.pc = "cycle" /\ peer.lock

\* C25: the open tabs have pairwise distinct repository paths and pairwise
\* distinct tab names, after any sequence of add-repository and
\* remove-repository operations.
C25_DistinctPaths ==
    \A i, j \in 1..Len(tabs) :
        i # j => /\ tabs[i].repo_path # tabs[j].repo_path
                 /\ tabs[i].tab_name # tabs[j].tab_name

\* C25 witness: four repositories are open, the directory "repo (2)" among
\* them under the tab name "repo (2) (2)", the tab name "repo (2)" being taken
\* by the second repository called "repo".
C25_Witness ==
    /\ Len(tabs) = MaxTabs
    /\ \E i, j \in 1..Len(tabs) :
          /\ tabs[i].tab_name = <<"repo", 2>> /\ tabs[i].repo_path.name = <<"repo">>
          /\ tabs[j].tab_name = <<"repo", 2, 2>> /\ tabs[j].repo_path.name = <<"repo", 2>>

\* C26: a failure to deliver the desktop notification never ends the cycle
\* early: the step in which a cycle attempts the notification (new commits
\* detected at the end of its classification) takes the cycle to its decision
\* point, whether the delivery worked or not, with no error raised.
C26_NotifyFailureSwallowed ==
    [][\A t \in Threads :
         (pc[t] = "list" /\ Ops(cmds'[t]) \cap {"notify", "notify_raised"} # {})
            => (pc'[t] = "decide" /\ ~loc'[t].exc)]_vars

\* text is t without the whitespace at its two ends
IsStripped(text, t) ==
    \E i \in 1..(Len(t) + 1) : \E j \in 0..Len(t) :
        /\ text = SubSeq(t, i, j)
        /\ \A k \in 1..Len(t) : (k < i \/ k > j) => t[k] \in Whitespace
        /\ text # <<>> => (text[1] \notin Whitespace /\ text[Len(text)] \notin Whitespace)

\* C27: run_git never raises. When the process exits, with whatever code, the
\* result is that code with the two outputs less the whitespace at their ends.
\* When the launch fails (timeout, executable not found, any other error), the
\* result has a non-zero code, empty stdout, and as stderr "Timeout",
\* "Command not found: " with the executable, or the text of the error.
C27_RunnerNeverRaises ==
    (git_call.f = "run_git" /\ git_call.ret # Pending) =>
        LET o == git_call.arg
            r == git_call.ret
        IN  /\ ~r.raised
            /\ o.kind = "exit" =>
                  /\ r.code = o.returncode
                  /\ IsStripped(r.stdout, o.stdout)
                  /\ IsStripped(r.stderr, o.stderr)
            /\ o.kind = "raise" =>
                  /\ r.code # 0
                  /\ r.stdout = <<>>
                  /\ r.stderr = (CASE o.exc = "TimeoutExpired" -> <<"Timeout">>
                                   [] o.exc = "FileNotFoundError"
                                        -> <<"Command not found: ", o.cmd[1]>>
                                   [] OTHER -> o.text)

\* C27 witness: a launch that failed with a PermissionError has come back as
\* the result (1, "", text of the error).
C27_Witness ==
    /\ git_call.f = "run_git" /\ git_call.ret # Pending
    /\ git_call.arg.kind = "raise" /\ git_call.arg.exc = "PermissionError"
    /\ git_call.ret = Result(1, <<>>, <<"a">>)

\* the changed-file set of the branch at position i of the list
ChangedAt(a, i) == get_changed_files(a.diff[a.branches[i]])

\* C28: are_files_disjoint returns true if and only if every two distinct
\* positions of the branch list have changed-file sets with an empty
\* intersection; it returns true for the empty list and for a list of one branch.
C28_DisjointIffPairwise ==
    (git_call.f = "are_files_disjoint" /\ git_call.ret # Pending) =>
        LET a == git_call.arg
            n == Len(a.branches)
        IN  /\ ~git_call.ret.raised
            /\ git_call.ret.value =
                  (\A i, j \in 1..n :
                      i # j => ChangedAt(a, i) \cap ChangedAt(a, j) = {})
            /\ n <= 1 => git_call.ret.value

\* C28 witness: a list of three positions whose neighbours share no file while
\* the first and the last do, found not disjoint.
C28_Witness ==
    /\ git_call.f = "are_files_disjoint" /\ git_call.ret # Pending
    /\ LET a == git_call.arg
       IN  /\ Len(a.branches) = 3
           /\ ChangedAt(a, 1) \cap ChangedAt(a, 2) = {}
           /\ ChangedAt(a, 2) \cap ChangedAt(a, 3) = {}
           /\ ChangedAt(a, 1) \cap ChangedAt(a, 3) # {}
    /\ git_call.ret = Value(FALSE)

\* C29: for all refs base and tip on which the count command succeeds,
\* commits_ahead(base, tip) equals commits_behind(tip, base).
C29_AheadIsBehindSwapped ==
    LET a == git_call.arg
        r == git_call.ret
    IN  (/\ git_call.f = "commit_counts"
         /\ r.ahead # Pending /\ r.behind # Pending
         /\ a.rev_list[Range2(a.base, a.tip)].code = 0)
        => (~r.ahead.raised /\ ~r.behind.raised /\ r.ahead.value = r.behind.value)

\* C29 witness: both calls have returned 10 for a range of two different refs
\* whose reverse range counts something else.
C29_Witness ==
    /\ git_call.f = "commit_counts"
    /\ git_call.arg.base # git_call.arg.tip
    /\ git_call.arg.rev_list[Range2(git_call.arg.tip, git_call.arg.base)]
          = Result(0, <<0>>, <<>>)
    /\ git_call.ret = [ahead |-> Value(MaxRev), behind |-> Value(MaxRev)]

\* C30: last_commit_count holds the most recently observed ahead count of every
\* branch: when a cycle has classified its enabled branches, the recorded count
\* of each of them (0 when none is recorded) equals the ahead count the cycle
\* observed. This holds at the end of the classification when some branch,
\* ahead or behind, keeps the cycle out of the Idle path, also for a branch
\* whose count dropped to 0, and after the decision when the cycle takes the
\* Idle path.
C30_RecordedIsLastObserved ==
    [][\A t \in Threads :
         /\ (pc[t] = "list" /\ pc'[t] = "decide")
            => LET l == loc'[t]
               IN  (\E c \in Range(l.branches) : l.ahead[c] > 0 \/ l.behind[c] > 0)
                      => \A b \in Range(l.branches) :
                            Get(last_commit_count', b, 0) = l.ahead[b]
         /\ (pc[t] = "decide" /\ pc'[t] # "decide")
            => LET l == loc[t]
               IN  (\A c \in Range(l.branches) : l.ahead[c] = 0 /\ l.behind[c] = 0)
                      => \A b \in Range(l.branches) :
                            Get(last_commit_count', b, 0) = l.ahead[b]]_vars

\* C31: the remote name, the main-branch name and the branch prefix a cycle
\* uses are those of the repository configuration as it is when the cycle
\* begins: after the configuration changed between two cycles, the later
\* cycle works with the new values, not with those captured when the session
\* was created.
C31_CycleUsesCurrentConfig ==
    [][\A t \in Threads :
         (CallsSync(t) /\ lock = NoThread /\ lock' = t)
            => CycleConfig' = repo_config'.file]_vars

\* C32: a failure of the behind-count command yields 0, of the changed-files
\* command the empty set, of the local-main-ahead computation 0. None of them
\* ends the cycle or stops the scheduler: the step in which the command fails
\* raises no error, leaves the polling flag to the decision table, and takes
\* the cycle where the defaulted value leads (on to the listing, to the
\* decision, to the push of the branches found behind, to the stop row
\* decided on the sets as defaulted).
C32_HelperFailuresDefault ==
    [][\A t \in Threads :
         LET l == loc'[t]
         IN  /\ (pc[t] = "fetch" /\ pc'[t] # "fetch"
                   /\ <<"local_main_ahead", 0>> \in l.failed)
                => /\ pc'[t] = "list" /\ ~l.exc
                   /\ l.local_ahead = 0
                   /\ polling' = polling
             /\ \A b \in Branches :
                  /\ (pc[t] = "list" /\ pc'[t] # "list"
                        /\ <<"commits_behind", b>> \in l.failed)
                     => /\ pc'[t] = "decide" /\ ~l.exc
                        /\ l.behind[b] = 0
                        /\ polling' = polling
                  /\ (pc[t] = "decide" /\ pc'[t] # "decide"
                        /\ <<"commits_behind", b>> \in l.failed)
                     => /\ pc'[t] = "push_behind" /\ ~l.exc
                        /\ b \notin Range(l.queue)
                        /\ polling' = polling
                  /\ (pc[t] = "decide" /\ pc'[t] # "decide"
                        /\ <<"get_changed_files", b>> \in l.failed)
                     => /\ ~l.exc
                        /\ l.files[b] = {}
                        /\ state_label' =
                              (IF PairwiseDisjoint(pending_branches', l.files)
                               THEN MergePossible ELSE HumanRequired)]_vars

\* C32 witness: a polling cycle is at its decision with branch 1 classified
\* ahead, not diverged, on a behind count that failed and was taken as 0.
C32_Witness ==
    \E t \in Threads :
        /\ pc[t] = "decide" /\ kind[t] = "poll" /\ polling
        /\ <<"commits_behind", 1>> \in loc[t].failed
        /\ loc[t].ahead[1] > 0 /\ loc[t].behind[1] = 0

\* C33: the handling of a changed-files failure is conservative: a cycle in
\* which the changed-files command fails for some pending branch never ends in
\* MergePossible when it would have ended in HumanRequired had the command
\* succeeded, that is when two pending branches really change a common file.
C33_DiffFailureNeverOffersMerge ==
    [][\A t \in Threads :
         (/\ pc[t] = "decide" /\ pc'[t] # "decide"
          /\ \E b \in Branches : <<"get_changed_files", b>> \in loc'[t].failed
          /\ ~PairwiseDisjoint(pending_branches', loc'[t].changed))
            => state_label' # MergePossible]_vars

\* positions of a thread whose sync() or _do_merge() call is over
EndedPcs == {"wait", "done", "crashed", "skipped", "exited"}

\* C34: after any sync or merge execution ends, by return or by an error
\* raised inside it, the session lock is released and the syncing indicator
\* is false: the lock is never held by a thread that is not inside an
\* execution, so the session is never left unable to run a cycle. The syncing
\* indicator is true only while a sync holds the lock.
C34_LockAndIndicatorReleased ==
    /\ [](/\ lock # NoThread => (lock \in Threads /\ InFlight(lock))
          /\ \A t \in Threads : pc[t] \in EndedPcs => lock # t
          /\ syncing => (lock \in Threads /\ kind[lock] \in {"poll", "manual"}
                            /\ InFlight(lock)))
    /\ [][\A t \in Threads :
            (InFlight(t) /\ ~InFlight(t)')
               => (lock = t /\ lock' = NoThread /\ ~syncing')]_vars

\* C34 witness: a polling thread has died of an error raised inside its cycle,
\* a merge has returned, the lock is free and the indicator off.
C34_Witness ==
    /\ lock = NoThread /\ ~syncing
    /\ \E t, u \in Threads :
          /\ kind[t] = "poll" /\ pc[t] = "crashed"
          /\ kind[u] = "merge" /\ pc[u] = "done"

\* C35: once a cycle that took the lock has finished, syncState is one of the
\* states a decision-table row leaves (Idle, SyncOK, MergePossible,
\* HumanRequired, Error, push failed): the session is never in the transient
\* 'Sync...' state with no cycle in flight.
C35_NeverLeftScanning ==
    (\A t \in Threads : ~(InFlight(t) /\ kind[t] \in {"poll", "manual"}))
        => state_label # Scanning

\* C36: pendingBranches only ever holds branches that are enabled for
\* synchronisation: every write to it, by the initial scan or by a cycle, lists
\* enabled branches only, so that a manual merge never merges a disabled branch
\* into main.
C36_PendingAreEnabled ==
    [][/\ pending_branches' # pending_branches
          => \A b \in Range(pending_branches') : enabled(settings', b)
       /\ \A t \in Threads :
             (pc[t] = "merge_branch" /\ Count(cmds'[t], "merge") > Count(cmds[t], "merge"))
                => enabled(settings, Head(loc[t].queue))]_vars

\* C37: every write to pendingBranches and lastCommitCount is made under the
\* session lock, so that the initial scan started at session creation never
\* writes these fields while a sync cycle or a merge of the same session (one
\* started by auto-start polling or by an early manual sync) is in flight.
C37_ScanNeverInterleaves ==
    [][(scan_pc' # scan_pc
          /\ (pending_branches' # pending_branches
                 \/ last_commit_count' # last_commit_count))
          => lock = NoThread]_vars

\* C39: a stop-polling command of the operator on a polling session always
\* takes effect, whatever the session's health flag: whenever the session is
\* polling and the main thread is there to take commands, toggle_polling can
\* take the step that clears the polling flag and sets the event.
C39_StopAlwaysTakesEffect ==
    (polling /\ main_pc = "mainloop") => ENABLED toggle_polling

\* C38: the load-modify-save pruning of the shared settings is free of races
\* between sessions: a cycle of one session that writes the settings removes
\* stale entries of its own repository and changes nothing else, so no entry
\* of the other repository is lost, or restored after the other session
\* pruned it, by the write of a stale copy.
C38_PruneRaceFree ==
    [][/\ peer' # peer
          => /\ settings'.branch_update_enabled = settings.branch_update_enabled
             /\ settings'.default_enabled = settings.default_enabled
       /\ (\E t \in Threads : pc'[t] # pc[t])
          => settings'.other_repos = settings.other_repos]_vars

====
